---- MODULE Spec2Model ----
(***************************************************************************)
(* Model of the metric engine of the ECE-461 package evaluator:            *)
(* the Bus Factor calculator (metrics/busFactor, github_data), the         *)
(* Responsive Maintainer calculator (metrics/responsiveMaintainer.ts),     *)
(* the repository record (json.ts) and the evaluation built around them.   *)
(*                                                                         *)
(* JavaScript numbers are modelled as exact rationals n/d together with    *)
(* the special values NaN and Infinity; `undefined` and strings are        *)
(* separate tagged values.  Within the bounds below the exact rational     *)
(* comparison against the 0.95 threshold coincides with the IEEE-754       *)
(* double evaluation performed by the program.                             *)
(***************************************************************************)
EXTENDS Integers, Sequences, FiniteSets, TLC

\* ------------------------------------------------------------------ bounds
MaxContributors ==
  4

MaxContributions ==
  3

MaxIssues ==
  3

MaxOpenIssuesCount ==
  10

MaxClock ==
  6

MaxNameAtoms ==
  2

MaxUrlAtoms ==
  3

MaxFileAtoms ==
  4

MaxMainFileAtoms ==
  4

\* ------------------------------------------------- JavaScript value model
Rat(n, d) ==
  [t |-> "number", n |-> n, d |-> d]

Num(n) ==
  Rat(n, 1)

NaN ==
  [t |-> "NaN", n |-> 0, d |-> 1]

Infinity ==
  [t |-> "Infinity", n |-> 0, d |-> 1]

Undefined ==
  [t |-> "undefined", n |-> 0, d |-> 1]

Str ==
  [t |-> "string", n |-> 0, d |-> 1]

Null ==
  [t |-> "null", n |-> 0, d |-> 1]

NoValue ==
  [t |-> "none", n |-> 0, d |-> 1]

\* a + b on numbers; undefined converts to NaN, NaN is absorbing
JsAdd(a, b) ==
  IF a.t \in {"NaN", "undefined"} \/ b.t \in {"NaN", "undefined"} THEN NaN
  ELSE IF a.t = "Infinity" \/ b.t = "Infinity" THEN Infinity
  ELSE IF a.d = b.d THEN Rat(a.n + b.n, a.d)
  ELSE Rat(a.n * b.d + b.n * a.d, a.d * b.d)

\* a - b for a finite a
JsSub(a, b) ==
  IF a.t \in {"NaN", "undefined"} \/ b.t \in {"NaN", "undefined", "Infinity"} THEN NaN
  ELSE IF a.d = b.d THEN Rat(a.n - b.n, a.d)
  ELSE Rat(a.n * b.d - b.n * a.d, a.d * b.d)

\* a / b on non-negative operands: 0/0 is NaN, x/0 is Infinity
JsDiv(a, b) ==
  IF a.t \in {"NaN", "undefined"} \/ b.t \in {"NaN", "undefined"} THEN NaN
  ELSE IF a.t = "Infinity" THEN (IF b.t = "Infinity" THEN NaN ELSE Infinity)
  ELSE IF b.t = "Infinity" THEN Num(0)
  ELSE IF b.n = 0 THEN (IF a.n = 0 THEN NaN ELSE Infinity)
  ELSE Rat(a.n * b.d, a.d * b.n)

\* a < b; every comparison with NaN is false
JsLt(a, b) ==
  IF a.t \in {"NaN", "undefined"} \/ b.t \in {"NaN", "undefined"} THEN FALSE
  ELSE IF a.t = "Infinity" THEN FALSE
  ELSE IF b.t = "Infinity" THEN TRUE
  ELSE a.n * b.d < b.n * a.d

\* Math.round(x * 10) / 10, kept as a number of tenths over 10
\* (Math.round rounds half toward +Infinity)
MathRoundTenth(x) ==
  IF x.t # "number" THEN x
  ELSE Rat((20 * x.n + x.d) \div (2 * x.d), 10)

\* the digits after the second decimal are cut off instead of rounded
ToFixed2_Truncate(x, below) ==
  IF x.t = "NaN" THEN x
  ELSE IF x.t = "Infinity" THEN x
  ELSE Rat((100 * x.n) \div x.d, 100)

\* parseFloat(x.toFixed(2)) kept as a number of hundredths over 100.
\* toFixed rounds the double to the nearest hundredth, upward on an exact
\* tie; `below` tells that the double lies below the exact rational x.
ToFixed2(x, below) ==
  IF x.t = "NaN" THEN x
  ELSE IF x.t = "Infinity" THEN x
  ELSE IF below /\ (200 * x.n) % (2 * x.d) = x.d
       THEN Rat((100 * x.n) \div x.d, 100)
       ELSE Rat((200 * x.n + x.d) \div (2 * x.d), 100)

\* ------------------------------------------------------------------ state
VARIABLES
  bfData,         \* contributors response handed to getBusFactor
  bfOut,          \* value returned by the latest getBusFactor call
  bfPrev,         \* value returned by the call before it
  bfPc,           \* position of the getBusFactor caller
  rmPc,           \* position of calculateResponsiveMaintainer
  rmFetch,        \* state of its two fetchJsonFromApi promises
  rmRepoData,     \* open_issues_count of the repository metadata response
  rmIssuesData,   \* closed_at of each issue of the issues response
  rmLatencyStart, \* latency_start
  rmResult,       \* the { score, latency } the promise resolved with
  clock,          \* the system clock, in milliseconds
  evState,        \* per evaluation: Created, Fetching, PartiallyComplete, Aggregated
  evCalc,         \* per evaluation and metric: state of the calculator
  evRecord,       \* per evaluation: the DataObject record
  evPlan,         \* per evaluation and metric: what the calculator's fetch will yield
  evVictim,       \* the metric whose fetch fails in the second evaluation only
  utCall,         \* a call of a helper function: its name and arguments
  utRet,          \* what the call came back with: return value, exit, file read
  mnPc,           \* main: where the function stands
  mnFile,         \* main: the command-line argument and the file behind it
  mnUrls,         \* main: the array processUrls returned
  mnI,            \* main: number of loop iterations completed
  mnLog,          \* main: the validations made so far, in order
  mnHeap,         \* the objects allocated so far
  mnRecords,      \* main: references of the records createRepoJson returned
  mnOutput,       \* the records written to the output
  mnExit          \* the process exit code, -1 while the process runs

bfVars ==
  <<bfData, bfOut, bfPrev, bfPc>>

rmVars ==
  <<rmPc, rmFetch, rmRepoData, rmIssuesData, rmLatencyStart, rmResult, clock>>

evVars ==
  <<evState, evCalc, evRecord, evPlan, evVictim>>

utVars ==
  <<utCall, utRet>>

mnVars ==
  <<mnPc, mnFile, mnUrls, mnI, mnLog, mnHeap, mnRecords, mnOutput, mnExit>>

vars ==
  <<bfData, bfOut, bfPrev, bfPc,
    rmPc, rmFetch, rmRepoData, rmIssuesData, rmLatencyStart, rmResult, clock,
    evState, evCalc, evRecord, evPlan, evVictim, utCall, utRet,
    mnPc, mnFile, mnUrls, mnI, mnLog, mnHeap, mnRecords, mnOutput, mnExit>>

\* ------------------------------------------------------------- Bus Factor

\* the `contributions` field of one element of the contributors response
ContributionsValues ==
  {Num(c) : c \in 0..MaxContributions} \cup {Str, Undefined}

ContributorLists ==
  UNION {[1..n -> ContributionsValues] : n \in 0..MaxContributors}

\* only elements with a truthy `contributions` are kept
getContributionCounts_Truthy(data) ==
  SelectSeq(data, LAMBDA item : item.t = "number" /\ item.n # 0)

getContributionCounts(data) ==
  SelectSeq(data, LAMBDA item : item.t = "number")

\* commit_count[i] with a 0-based index; out of range reads undefined
At(commit_count, i) ==
  IF i < Len(commit_count) THEN commit_count[i + 1] ELSE Undefined

threshold ==
  Rat(95, 100)

RECURSIVE TotalCommits(_, _, _, _)
TotalCommits(commit_count, num_committers, i, total_commits) ==
  IF i < num_committers
  THEN TotalCommits(commit_count, num_committers, i + 1,
                    JsAdd(total_commits, At(commit_count, i)))
  ELSE total_commits

RECURSIVE CoverLoop(_, _, _, _, _)
CoverLoop(commit_count, num_committers, total_commits, current_percentage, i) ==
  IF JsLt(current_percentage, threshold) /\ i < num_committers
  THEN CoverLoop(commit_count, num_committers, total_commits,
                 JsAdd(current_percentage, JsDiv(At(commit_count, i), total_commits)),
                 i + 1)
  ELSE i

getBusFactor(data) ==
  LET num_committers == Len(data)
      commit_count == getContributionCounts(data)
      total_commits == TotalCommits(commit_count, num_committers, 0, Num(0))
      i == CoverLoop(commit_count, num_committers, total_commits, Num(0), 0)
      bus_factor == JsSub(Num(1), JsDiv(Num(i), Num(num_committers)))
  IN  MathRoundTenth(bus_factor)

BFInit ==
  /\ bfData \in ContributorLists
  /\ bfOut = NoValue
  /\ bfPrev = NoValue
  /\ bfPc = "ready"

BFIdle ==
  /\ bfData = <<>>
  /\ bfOut = NoValue
  /\ bfPrev = NoValue
  /\ bfPc = "idle"

\* one call of getBusFactor on the fetched contributor data
CallGetBusFactor ==
  /\ bfPc = "ready"
  /\ bfOut' = getBusFactor(bfData)
  /\ bfPc' = "done"
  /\ UNCHANGED <<bfData, bfPrev>>
  /\ UNCHANGED rmVars
  /\ UNCHANGED evVars
  /\ UNCHANGED utVars
  /\ UNCHANGED mnVars

SwapAt(s, k) ==
  [j \in 1..Len(s) |-> IF j = k THEN s[k + 1] ELSE IF j = k + 1 THEN s[k] ELSE s[j]]

\* the caller presents the same contributors again, possibly in another order
Recall ==
  /\ bfPc = "done"
  /\ \E k \in 0..(IF Len(bfData) = 0 THEN 0 ELSE Len(bfData) - 1) :
       bfData' = IF k = 0 THEN bfData ELSE SwapAt(bfData, k)
  /\ bfPrev' = bfOut
  /\ bfPc' = "ready"
  /\ UNCHANGED bfOut
  /\ UNCHANGED rmVars
  /\ UNCHANGED evVars
  /\ UNCHANGED utVars
  /\ UNCHANGED mnVars

\* -------------------------------------------------- Responsive Maintainer
Fetches ==
  {"repo", "issues"}

\* closed_at of one issue: a timestamp string, null, or not there at all
ClosedAtValues ==
  {Str, Null, Undefined}

IssueLists ==
  UNION {[1..n -> ClosedAtValues] : n \in 0..MaxIssues}

\* open_issues_count of the repository metadata: an integer, or not there
OpenIssuesCountValues ==
  {Num(c) : c \in 0..MaxOpenIssuesCount} \cup {Undefined}

NoResult ==
  [score |-> NoValue, latency |-> NoValue]

\* JavaScript truthiness, as used by `if (issue.closed_at)` and by `||`
Truthy(v) ==
  \/ v.t \in {"string", "Infinity"}
  \/ v.t = "number" /\ v.n # 0

\* the for-of loop over issuesData: <<openIssuesCount, closedIssuesCount>>
RECURSIVE CountIssues(_, _, _, _)
CountIssues(issuesData, k, openIssuesCount, closedIssuesCount) ==
  IF k > Len(issuesData) THEN <<openIssuesCount, closedIssuesCount>>
  ELSE IF Truthy(issuesData[k])
       THEN CountIssues(issuesData, k + 1, openIssuesCount, closedIssuesCount + 1)
       ELSE CountIssues(issuesData, k + 1, openIssuesCount + 1, closedIssuesCount)

\* the metadata count is ignored
OpenIssuesCount_LocalOnly(open_issues_count, openIssuesCount) ==
  Num(openIssuesCount)

\* openIssuesCount = repoData.open_issues_count || openIssuesCount
OpenIssuesCount(open_issues_count, openIssuesCount) ==
  IF Truthy(open_issues_count) THEN open_issues_count ELSE Num(openIssuesCount)

\* the division is not guarded against closedIssuesCount = 0
Ratio_Unguarded(openIssuesCount, closedIssuesCount) ==
  JsDiv(openIssuesCount, Num(closedIssuesCount))

\* closedIssuesCount > 0 ? openIssuesCount / closedIssuesCount : 0
Ratio(openIssuesCount, closedIssuesCount) ==
  IF closedIssuesCount > 0 THEN JsDiv(openIssuesCount, Num(closedIssuesCount))
  ELSE Num(0)

\* <<open, closed>> pairs for which the double 1 / (1 + open / closed) lies
\* below the exact quotient while the exact quotient is a rounding tie
\* (1 / (1 + 5 / 3) evaluates to 0.37499999999999994)
DoubleBelowTie ==
  {<<5, 3>>}

\* the score is taken as 1 - ratio
Score_OneMinusRatio(open_issues_count, issuesData) ==
  LET counted == CountIssues(issuesData, 1, 0, 0)
      closedIssuesCount == counted[2]
      openIssuesCount == OpenIssuesCount(open_issues_count, counted[1])
      ratio == Ratio(openIssuesCount, closedIssuesCount)
  IN  ToFixed2(JsSub(Num(1), ratio), FALSE)

Score(open_issues_count, issuesData) ==
  LET counted == CountIssues(issuesData, 1, 0, 0)
      closedIssuesCount == counted[2]
      openIssuesCount == OpenIssuesCount(open_issues_count, counted[1])
      ratio == Ratio(openIssuesCount, closedIssuesCount)
  IN  ToFixed2(JsDiv(Num(1), JsAdd(Num(1), ratio)),
               <<openIssuesCount.n, closedIssuesCount>> \in DoubleBelowTie)

\* seconds since the epoch with the milliseconds as the fraction
getTimestampWithThreeDecimalPlaces ==
  Rat(clock, 1000)

RMInit ==
  /\ rmPc = "start"
  /\ rmFetch = [f \in Fetches |-> "idle"]
  /\ rmRepoData \in OpenIssuesCountValues
  /\ rmIssuesData \in IssueLists
  /\ rmLatencyStart = NoValue
  /\ rmResult = NoResult
  /\ clock = 0

RMIdle ==
  /\ rmPc = "idle"
  /\ rmFetch = [f \in Fetches |-> "idle"]
  /\ rmRepoData = Undefined
  /\ rmIssuesData = <<>>
  /\ rmLatencyStart = NoValue
  /\ rmResult = NoResult
  /\ clock = 0

\* calculateResponsiveMaintainer up to its await: the start timestamp is
\* taken and both fetches are issued
RMCall ==
  /\ rmPc = "start"
  /\ rmLatencyStart' = getTimestampWithThreeDecimalPlaces
  /\ rmFetch' = [f \in Fetches |-> "pending"]
  /\ rmPc' = "awaiting"
  /\ UNCHANGED <<rmRepoData, rmIssuesData, rmResult, clock>>
  /\ UNCHANGED bfVars
  /\ UNCHANGED evVars
  /\ UNCHANGED utVars
  /\ UNCHANGED mnVars

\* fetchJsonFromApi: axios.get answered, response.data is returned
FetchResolve(f) ==
  /\ rmFetch[f] = "pending"
  /\ rmFetch' = [rmFetch EXCEPT ![f] = "ok"]
  /\ UNCHANGED <<rmPc, rmRepoData, rmIssuesData, rmLatencyStart, rmResult, clock>>
  /\ UNCHANGED bfVars
  /\ UNCHANGED evVars
  /\ UNCHANGED utVars
  /\ UNCHANGED mnVars

\* fetchJsonFromApi: axios.get failed, the error is logged and rethrown
FetchReject(f) ==
  /\ rmFetch[f] = "pending"
  /\ rmFetch' = [rmFetch EXCEPT ![f] = "failed"]
  /\ UNCHANGED <<rmPc, rmRepoData, rmIssuesData, rmLatencyStart, rmResult, clock>>
  /\ UNCHANGED bfVars
  /\ UNCHANGED evVars
  /\ UNCHANGED utVars
  /\ UNCHANGED mnVars

\* the rest of the function runs as soon as the repository data is there
RMResume_AfterRepoOnly ==
  /\ rmPc = "awaiting"
  /\ rmFetch["repo"] = "ok"
  /\ rmResult' = [score |-> Score(rmRepoData, rmIssuesData), latency |-> Rat(0, 100)]
  /\ rmPc' = "done"
  /\ UNCHANGED <<rmFetch, rmRepoData, rmIssuesData, rmLatencyStart, clock>>
  /\ UNCHANGED bfVars
  /\ UNCHANGED evVars
  /\ UNCHANGED utVars
  /\ UNCHANGED mnVars

\* Promise.all fulfilled: the rest of calculateResponsiveMaintainer runs.
\* The subtraction of two doubles near 1.7e9 seconds is off by up to an ulp,
\* so a difference on a rounding tie goes either way.
RMResume ==
  /\ rmPc = "awaiting"
  /\ \A f \in Fetches : rmFetch[f] = "ok"
  /\ \E below \in BOOLEAN :
       rmResult' =
         [score |-> Score(rmRepoData, rmIssuesData),
          latency |-> ToFixed2(JsSub(getTimestampWithThreeDecimalPlaces, rmLatencyStart),
                               below)]
  /\ rmPc' = "done"
  /\ UNCHANGED <<rmFetch, rmRepoData, rmIssuesData, rmLatencyStart, clock>>
  /\ UNCHANGED bfVars
  /\ UNCHANGED evVars
  /\ UNCHANGED utVars
  /\ UNCHANGED mnVars

\* Promise.all rejected by the first failed fetch: the await throws, nothing
\* catches it, the promise of calculateResponsiveMaintainer rejects
RMThrow ==
  /\ rmPc = "awaiting"
  /\ \E f \in Fetches : rmFetch[f] = "failed"
  /\ rmPc' = "rejected"
  /\ UNCHANGED <<rmFetch, rmRepoData, rmIssuesData, rmLatencyStart, rmResult, clock>>
  /\ UNCHANGED bfVars
  /\ UNCHANGED evVars
  /\ UNCHANGED utVars
  /\ UNCHANGED mnVars

\* a millisecond passes while the calculation is under way
Tick ==
  /\ rmPc \in {"start", "awaiting"}
  /\ clock < MaxClock
  /\ clock' = clock + 1
  /\ UNCHANGED <<rmPc, rmFetch, rmRepoData, rmIssuesData, rmLatencyStart, rmResult>>
  /\ UNCHANGED bfVars
  /\ UNCHANGED evVars
  /\ UNCHANGED utVars
  /\ UNCHANGED mnVars

\* ------------------------------------------------------------ evaluation
Metrics ==
  {"RampUp", "Correctness", "BusFactor", "ResponsiveMaintainer", "License"}

\* the reference evaluation and its twin with one injected fetch failure
Runs ==
  {1, 2}

LatencyField(m) ==
  CASE m = "NetScore" -> "NetScore_Latency"
    [] m = "RampUp" -> "RampUp_Latency"
    [] m = "Correctness" -> "Correctness_Latency"
    [] m = "BusFactor" -> "BusFactor_Latency"
    [] m = "ResponsiveMaintainer" -> "ResponsiveMaintainer_Latency"
    [] m = "License" -> "License_Latency"

initJSON ==
  [URL |-> "",
   NetScore |-> Null, NetScore_Latency |-> Null,
   RampUp |-> Null, RampUp_Latency |-> Null,
   Correctness |-> Null, Correctness_Latency |-> Null,
   BusFactor |-> Null, BusFactor_Latency |-> Null,
   ResponsiveMaintainer |-> Null, ResponsiveMaintainer_Latency |-> Null,
   License |-> Null, License_Latency |-> Null]

createRepoJson(url) ==
  [initJSON EXCEPT !.URL = url]

SampleUrl ==
  "https://github.com/lodash/lodash"

\* scores and latencies (seconds) a calculator can come back with
ScoreSamples ==
  {Rat(40, 100), Rat(80, 100)}

LatencySamples ==
  {Rat(12, 100), Rat(50, 100)}

\* what the remote side holds for one calculator: whether its fetch
\* succeeds, the score the fetched data leads to, the time the attempt takes
Outcomes ==
  {[ok |-> TRUE, score |-> sc, latency |-> l] : sc \in ScoreSamples, l \in LatencySamples}
    \cup {[ok |-> FALSE, score |-> Null, latency |-> l] : l \in LatencySamples}

NoPlan ==
  [m \in Metrics |-> [ok |-> FALSE, score |-> Null, latency |-> Null]]

\* what calculateResponsiveMaintainer hands back: it resolves with
\* { score, latency } and, on a failed fetch, rejects with nothing
calculateResponsiveMaintainer(plan) ==
  IF plan.ok THEN [settled |-> "filled", score |-> plan.score, latency |-> plan.latency]
  ELSE [settled |-> "failed", score |-> Null, latency |-> Null]

\* what calculator m hands back; the calculators other than
\* calculateResponsiveMaintainer return an absent score with the measured
\* latency when their fetch fails
CalculatorResult(m, plan) ==
  IF m = "ResponsiveMaintainer" THEN calculateResponsiveMaintainer(plan)
  ELSE IF plan.ok
       THEN [settled |-> "filled", score |-> plan.score, latency |-> plan.latency]
       ELSE [settled |-> "failed", score |-> Null, latency |-> plan.latency]

RECURSIVE SumOf(_, _)
SumOf(f, S) ==
  IF S = {} THEN Num(0)
  ELSE LET m == CHOOSE x \in S : TRUE
       IN  JsAdd(IF f[m] = Null THEN Num(0) ELSE f[m], SumOf(f, S \ {m}))

Present(record) ==
  {m \in Metrics : record[m] # Null}

\* the mean is taken over all five metrics, absent ones counting as 0
NetScore_OverAllFive(record) ==
  IF Present(record) = {} THEN Null
  ELSE JsDiv(SumOf(record, Present(record)), Num(Cardinality(Metrics)))

\* null propagates: one absent score makes NetScore absent
NetScore_NullPropagating(record) ==
  IF Present(record) # Metrics THEN Null
  ELSE JsDiv(SumOf(record, Present(record)), Num(Cardinality(Present(record))))

\* equal-weight mean of the present scores; absent when none is present
NetScore(record) ==
  IF Present(record) = {} THEN Null
  ELSE JsDiv(SumOf(record, Present(record)), Num(Cardinality(Present(record))))

\* sum of the recorded latencies of the five metrics
NetScoreLatency(record) ==
  SumOf([m \in Metrics |-> record[LatencyField(m)]], Metrics)

\* the aggregator writes 0 back into the slots that were absent
ScoreAggregator_ZeroFill(record) ==
  [f \in DOMAIN record |->
     IF f = "NetScore" THEN NetScore(record)
     ELSE IF f = "NetScore_Latency" THEN NetScoreLatency(record)
     ELSE IF f \in Metrics /\ record[f] = Null THEN Num(0)
     ELSE record[f]]

ScoreAggregator(record) ==
  [record EXCEPT !.NetScore = NetScore(record),
                 !.NetScore_Latency = NetScoreLatency(record)]

\* the join is left as soon as one calculator has failed
AllSettled_FailFast(r) ==
  \/ \A m \in Metrics : evCalc[r][m] \in {"filled", "failed"}
  \/ \E m \in Metrics : evCalc[r][m] = "failed"

\* every calculator has returned, with success or failure
AllSettled(r) ==
  \A m \in Metrics : evCalc[r][m] \in {"filled", "failed"}

EvIdle ==
  /\ evState = [r \in Runs |-> "idle"]
  /\ evCalc = [r \in Runs |-> [m \in Metrics |-> "idle"]]
  /\ evRecord = [r \in Runs |-> initJSON]
  /\ evPlan = [r \in Runs |-> NoPlan]
  /\ evVictim = "none"

\* one evaluation of one validated URL
EvInit ==
  /\ evState = [r \in Runs |-> IF r = 1 THEN "Created" ELSE "idle"]
  /\ evCalc = [r \in Runs |-> [m \in Metrics |-> "idle"]]
  /\ evRecord = [r \in Runs |-> IF r = 1 THEN createRepoJson(SampleUrl) ELSE initJSON]
  /\ \E plan \in [Metrics -> Outcomes] :
       evPlan = [r \in Runs |-> IF r = 1 THEN plan ELSE NoPlan]
  /\ evVictim = "none"

SamplePlan(failing) ==
  [m \in Metrics |->
     IF m \in failing THEN [ok |-> FALSE, score |-> Null, latency |-> Rat(12, 100)]
     ELSE [ok |-> TRUE,
           score |-> IF m \in {"RampUp", "License"} THEN Rat(80, 100) ELSE Rat(40, 100),
           latency |-> Rat(50, 100)]]

\* two evaluations of the same URL against the same remote data, except
\* that the fetch of the victim calculator fails in the second one
IsolationInit ==
  /\ evState = [r \in Runs |-> "Created"]
  /\ evCalc = [r \in Runs |-> [m \in Metrics |-> "idle"]]
  /\ evRecord = [r \in Runs |-> createRepoJson(SampleUrl)]
  /\ \E c \in Metrics : \E failing \in SUBSET (Metrics \ {c}) :
       /\ evVictim = c
       /\ evPlan = [r \in Runs |->
                      IF r = 1 THEN SamplePlan(failing)
                      ELSE SamplePlan(failing \cup {c})]

\* a finished evaluation is launched again
Launch_Again(r) ==
  /\ evState[r] \in {"Created", "Aggregated"}
  /\ \E m \in Metrics : evCalc[r][m] \in {"idle", "failed"}
  /\ evState' = [evState EXCEPT ![r] = "Fetching"]
  /\ evCalc' = [evCalc EXCEPT ![r] = [m \in Metrics |-> "running"]]
  /\ UNCHANGED <<evRecord, evPlan, evVictim>>
  /\ UNCHANGED bfVars
  /\ UNCHANGED rmVars
  /\ UNCHANGED utVars
  /\ UNCHANGED mnVars

\* Created -> Fetching: all five calculators are launched
Launch(r) ==
  /\ evState[r] = "Created"
  /\ evState' = [evState EXCEPT ![r] = "Fetching"]
  /\ evCalc' = [evCalc EXCEPT ![r] = [m \in Metrics |-> "running"]]
  /\ UNCHANGED <<evRecord, evPlan, evVictim>>
  /\ UNCHANGED bfVars
  /\ UNCHANGED rmVars
  /\ UNCHANGED utVars
  /\ UNCHANGED mnVars

\* calculator m returns; its slot goes to Filled(score) or Failed
Settle(r, m) ==
  /\ evState[r] = "Fetching"
  /\ evCalc[r][m] = "running"
  /\ LET res == CalculatorResult(m, evPlan[r][m])
     IN  /\ evCalc' = [evCalc EXCEPT ![r][m] = res.settled]
         /\ evRecord' = [evRecord EXCEPT ![r][m] = res.score,
                                         ![r][LatencyField(m)] = res.latency]
  /\ UNCHANGED <<evState, evPlan, evVictim>>
  /\ UNCHANGED bfVars
  /\ UNCHANGED rmVars
  /\ UNCHANGED utVars
  /\ UNCHANGED mnVars

\* the evaluation moves on while calculators are still running
Barrier_NoWait(r) ==
  /\ evState[r] = "Fetching"
  /\ evState' = [evState EXCEPT ![r] = "PartiallyComplete"]
  /\ UNCHANGED <<evCalc, evRecord, evPlan, evVictim>>
  /\ UNCHANGED bfVars
  /\ UNCHANGED rmVars
  /\ UNCHANGED utVars
  /\ UNCHANGED mnVars

\* Fetching -> PartiallyComplete: the barrier
Barrier(r) ==
  /\ evState[r] = "Fetching"
  /\ AllSettled(r)
  /\ evState' = [evState EXCEPT ![r] = "PartiallyComplete"]
  /\ UNCHANGED <<evCalc, evRecord, evPlan, evVictim>>
  /\ UNCHANGED bfVars
  /\ UNCHANGED rmVars
  /\ UNCHANGED utVars
  /\ UNCHANGED mnVars

\* PartiallyComplete -> Aggregated: the ScoreAggregator runs
Aggregate(r) ==
  /\ evState[r] = "PartiallyComplete"
  /\ evRecord' = [evRecord EXCEPT ![r] = ScoreAggregator(evRecord[r])]
  /\ evState' = [evState EXCEPT ![r] = "Aggregated"]
  /\ UNCHANGED <<evCalc, evPlan, evVictim>>
  /\ UNCHANGED bfVars
  /\ UNCHANGED rmVars
  /\ UNCHANGED utVars
  /\ UNCHANGED mnVars

EvNext ==
  \/ \E r \in Runs : Launch(r)
  \/ \E r \in Runs : \E m \in Metrics : Settle(r, m)
  \/ \E r \in Runs : Barrier(r)
  \/ \E r \in Runs : Aggregate(r)

\* ------------------------------------------------------- helper functions
\* Strings are sequences of atoms; "/" and "\n" are atoms of their own and
\* no other atom contains them.
Pending ==
  [returned |-> FALSE, value |-> <<>>, exit |-> -1, read |-> FALSE,
   rejected |-> FALSE]

Returned(v) ==
  [returned |-> TRUE, value |-> v, exit |-> -1, read |-> FALSE,
   rejected |-> FALSE]

\* an async function whose promise rejects
Rejected ==
  [returned |-> FALSE, value |-> <<>>, exit |-> -1, read |-> FALSE,
   rejected |-> TRUE]

UtIdle ==
  /\ utCall = [fn |-> "none"]
  /\ utRet = Pending

\* s.split(sep)
RECURSIVE SplitFrom(_, _, _, _, _)
SplitFrom(s, sep, k, cur, acc) ==
  IF k > Len(s) THEN Append(acc, cur)
  ELSE IF s[k] = sep THEN SplitFrom(s, sep, k + 1, <<>>, Append(acc, cur))
  ELSE SplitFrom(s, sep, k + 1, Append(cur, s[k]), acc)

Split(s, sep) ==
  SplitFrom(s, sep, 1, <<>>, <<>>)

\* parts[i] with a 0-based index inside a template string
PartAt(parts, i) ==
  IF i >= 0 /\ i < Len(parts) THEN parts[i + 1] ELSE <<"undefined">>

ApiPrefix ==
  <<"https:", "/", "/", "api.github.com", "/", "repos", "/">>

\* '/' + endpoint is appended even when the endpoint is empty
getGitHubAPILink_AlwaysSlash(url, endpoint) ==
  LET urlParts == Split(url, "/")
      owner == PartAt(urlParts, Len(urlParts) - 2)
      repo == PartAt(urlParts, Len(urlParts) - 1)
  IN  ApiPrefix \o owner \o <<"/">> \o repo \o <<"/">> \o endpoint

getGitHubAPILink(url, endpoint) ==
  LET urlParts == Split(url, "/")
      owner == PartAt(urlParts, Len(urlParts) - 2)
      repo == PartAt(urlParts, Len(urlParts) - 1)
  IN  ApiPrefix \o owner \o <<"/">> \o repo
        \o (IF endpoint # <<>> THEN <<"/">> \o endpoint ELSE <<>>)

NameAtoms ==
  {"lodash", "js"}

Names ==
  UNION {[1..n -> NameAtoms] : n \in 1..MaxNameAtoms}

RepoUrl(owner, repo) ==
  <<"https:", "/", "/", "github.com", "/">> \o owner \o <<"/">> \o repo

\* the endpoint argument: omitted (the default '' applies), '' or a path
Endpoints ==
  {[given |-> FALSE, s |-> <<>>], [given |-> TRUE, s |-> <<>>],
   [given |-> TRUE, s |-> <<"contributors">>],
   [given |-> TRUE, s |-> <<"issues?state=all">>]}

LinkInit ==
  /\ \E owner \in Names : \E repo \in Names : \E slash \in BOOLEAN : \E e \in Endpoints :
       utCall = [fn |-> "getGitHubAPILink",
                 url |-> RepoUrl(owner, repo) \o (IF slash THEN <<"/">> ELSE <<>>),
                 endpoint |-> e]
  /\ utRet = Pending

CallGetGitHubAPILink ==
  /\ utCall.fn = "getGitHubAPILink"
  /\ ~utRet.returned
  /\ utRet' = Returned(getGitHubAPILink(utCall.url,
                         IF utCall.endpoint.given THEN utCall.endpoint.s ELSE <<>>))
  /\ UNCHANGED utCall
  /\ UNCHANGED bfVars
  /\ UNCHANGED rmVars
  /\ UNCHANGED evVars
  /\ UNCHANGED mnVars

CountsInit ==
  /\ \E data \in ContributorLists :
       utCall = [fn |-> "getContributionCounts", data |-> data]
  /\ utRet = Pending

CallGetContributionCounts ==
  /\ utCall.fn = "getContributionCounts"
  /\ ~utRet.returned
  /\ utRet' = Returned(getContributionCounts(utCall.data))
  /\ UNCHANGED utCall
  /\ UNCHANGED bfVars
  /\ UNCHANGED rmVars
  /\ UNCHANGED evVars
  /\ UNCHANGED mnVars

\* ---- url_type
UrlAtoms ==
  {"https://", "github", "GitHub", "npmjs", "example", ".com", ".org", "/user/repo"}

Urls ==
  UNION {[1..n -> UrlAtoms] : n \in 0..MaxUrlAtoms}

\* the "i" flag: a character matches whatever its case
Lower(a) ==
  IF a = "GitHub" THEN "github" ELSE a

\* positions where (github|npmjs)\.com matches
Matches(url) ==
  {i \in 1..(Len(url) - 1) :
     Lower(url[i]) \in {"github", "npmjs"} /\ Lower(url[i + 1]) = ".com"}

FirstMatch(url) ==
  CHOOSE i \in Matches(url) : \A j \in Matches(url) : i <= j

\* match[1] is the text the group captured, in the case the URL has it
url_type(url) ==
  IF Matches(url) # {} THEN url[FirstMatch(url)] ELSE "other"

UrlTypeInit ==
  /\ \E url \in Urls : utCall = [fn |-> "url_type", url |-> url]
  /\ utRet = Pending

CallUrlType ==
  /\ utCall.fn = "url_type"
  /\ ~utRet.returned
  /\ utRet' = Returned(url_type(utCall.url))
  /\ UNCHANGED utCall
  /\ UNCHANGED bfVars
  /\ UNCHANGED rmVars
  /\ UNCHANGED evVars
  /\ UNCHANGED mnVars

\* ---- parse_urls
FileAtoms ==
  {"https://github.com/a/b", "https://www.npmjs.com/package/c", "\n"}

FileContents ==
  UNION {[1..n -> FileAtoms] : n \in 0..MaxFileAtoms}

\* process.exit(code): the call does not return
Exited(code, read) ==
  [returned |-> FALSE, value |-> <<>>, exit |-> code, read |-> read,
   rejected |-> FALSE]

ReturnedAfterRead(v) ==
  [returned |-> TRUE, value |-> v, exit |-> -1, read |-> TRUE,
   rejected |-> FALSE]

\* the missing file is not noticed: readFileSync is reached
parse_urls_NoExistsCheck(exists, content) ==
  IF content = <<>> THEN ReturnedAfterRead(<<>>)
  ELSE ReturnedAfterRead(Split(content, "\n"))

parse_urls(exists, content) ==
  IF ~exists THEN Exited(1, FALSE)
  ELSE IF content = <<>> THEN ReturnedAfterRead(<<>>)
  ELSE ReturnedAfterRead(Split(content, "\n"))

ParseUrlsInit ==
  /\ \E exists \in BOOLEAN : \E content \in FileContents :
       utCall = [fn |-> "parse_urls", exists |-> exists,
                 content |-> IF exists THEN content ELSE <<>>]
  /\ utRet = Pending

CallParseUrls ==
  /\ utCall.fn = "parse_urls"
  /\ ~utRet.returned
  /\ utRet.exit = -1
  /\ utRet' = parse_urls(utCall.exists, utCall.content)
  /\ UNCHANGED utCall
  /\ UNCHANGED bfVars
  /\ UNCHANGED rmVars
  /\ UNCHANGED evVars
  /\ UNCHANGED mnVars

\* ---- getTimestampWithThreeDecimalPlaces
Dates ==
  {[y |-> 1970, m |-> 1, d |-> 1], [y |-> 2023, m |-> 8, d |-> 1],
   [y |-> 2024, m |-> 2, d |-> 29], [y |-> 2024, m |-> 9, d |-> 21]}

Instants ==
  [date : Dates, h : {0, 10, 12, 23}, mi : {0, 20, 59}, s : {0, 30},
   ms : {0, 456, 789, 999}]

\* days from 1970-01-01 to the civil date, proleptic Gregorian calendar
DaysFromCivil(date) ==
  LET y == IF date.m <= 2 THEN date.y - 1 ELSE date.y
      era == y \div 400
      yoe == y - era * 400
      mp == IF date.m > 2 THEN date.m - 3 ELSE date.m + 9
      doy == (153 * mp + 2) \div 5 + date.d - 1
      doe == yoe * 365 + yoe \div 4 - yoe \div 100 + doy
  IN  era * 146097 + doe - 719468

\* Math.floor(now.getTime() / 1000)
EpochSeconds(now) ==
  DaysFromCivil(now.date) * 86400 + now.h * 3600 + now.mi * 60 + now.s

\* the milliseconds are dropped from the value returned
getTimestampWithThreeDecimalPlacesAt_WholeSeconds(now) ==
  [seconds |-> EpochSeconds(now), milliseconds |-> 0]

\* the number seconds + milliseconds / 1000, as its whole and fractional part
getTimestampWithThreeDecimalPlacesAt(now) ==
  [seconds |-> EpochSeconds(now), milliseconds |-> now.ms]

TimestampInit ==
  /\ \E now \in Instants :
       utCall = [fn |-> "getTimestampWithThreeDecimalPlaces", now |-> now]
  /\ utRet = Pending

CallGetTimestamp ==
  /\ utCall.fn = "getTimestampWithThreeDecimalPlaces"
  /\ ~utRet.returned
  /\ utRet' = Returned(getTimestampWithThreeDecimalPlacesAt(utCall.now))
  /\ UNCHANGED utCall
  /\ UNCHANGED bfVars
  /\ UNCHANGED rmVars
  /\ UNCHANGED evVars
  /\ UNCHANGED mnVars

\* ---- test_url
NoFetch ==
  [state |-> "none", status |-> 0]

HeadStatuses ==
  {200, 204, 299, 301, 404, 500}

\* Response.ok: the status is in the range 200-299
ResponseOk(status) ==
  status >= 200 /\ status <= 299

\* without the catch a failed request rejects the promise
test_url_NoCatch(fetch) ==
  IF fetch.state = "rejected" THEN Rejected
  ELSE Returned(ResponseOk(fetch.status))

test_url(fetch) ==
  IF fetch.state = "rejected" THEN Returned(FALSE)
  ELSE Returned(ResponseOk(fetch.status))

TestUrlInit ==
  /\ \E url \in Urls : utCall = [fn |-> "test_url", url |-> url, fetch |-> NoFetch]
  /\ utRet = Pending

\* fetch(url, { method: 'HEAD' }) is issued and awaited
TestUrlFetch ==
  /\ utCall.fn = "test_url"
  /\ utCall.fetch.state = "none"
  /\ utCall' = [utCall EXCEPT !.fetch.state = "pending"]
  /\ UNCHANGED utRet
  /\ UNCHANGED bfVars
  /\ UNCHANGED rmVars
  /\ UNCHANGED evVars
  /\ UNCHANGED mnVars

HeadResolve(status) ==
  /\ utCall.fn = "test_url"
  /\ utCall.fetch.state = "pending"
  /\ utCall' = [utCall EXCEPT !.fetch = [state |-> "resolved", status |-> status]]
  /\ UNCHANGED utRet
  /\ UNCHANGED bfVars
  /\ UNCHANGED rmVars
  /\ UNCHANGED evVars
  /\ UNCHANGED mnVars

HeadReject ==
  /\ utCall.fn = "test_url"
  /\ utCall.fetch.state = "pending"
  /\ utCall' = [utCall EXCEPT !.fetch.state = "rejected"]
  /\ UNCHANGED utRet
  /\ UNCHANGED bfVars
  /\ UNCHANGED rmVars
  /\ UNCHANGED evVars
  /\ UNCHANGED mnVars

TestUrlReturn ==
  /\ utCall.fn = "test_url"
  /\ utCall.fetch.state \in {"resolved", "rejected"}
  /\ utRet = Pending
  /\ utRet' = test_url(utCall.fetch)
  /\ UNCHANGED utCall
  /\ UNCHANGED bfVars
  /\ UNCHANGED rmVars
  /\ UNCHANGED evVars
  /\ UNCHANGED mnVars

TestUrlNext ==
  \/ TestUrlFetch
  \/ \E status \in HeadStatuses : HeadResolve(status)
  \/ HeadReject
  \/ TestUrlReturn

\* ---- getNodeJsAPILink
PackageUrls ==
  {<<"https:", "/", "/", "www.npmjs.com", "/", "package", "/">> \o name : name \in Names}

RepoUrlPrefixes ==
  {"git+ssh://git@", "git+https://", "https://", "git://"}

\* repository.url values of the registry data; <<>> is the empty string
RepositoryUrls ==
  {<<>>}
    \cup {<<p, "github.com/user/repo">> : p \in RepoUrlPrefixes}
    \cup {<<p, "github.com/user/repo", ".git">> : p \in RepoUrlPrefixes}

\* the registry's answer: null, or an object that may hold repository.url
NpmData ==
  {[null |-> TRUE, repository |-> FALSE, hasUrl |-> FALSE, url |-> <<>>],
   [null |-> FALSE, repository |-> FALSE, hasUrl |-> FALSE, url |-> <<>>],
   [null |-> FALSE, repository |-> TRUE, hasUrl |-> FALSE, url |-> <<>>]}
    \cup {[null |-> FALSE, repository |-> TRUE, hasUrl |-> TRUE, url |-> u] :
            u \in RepositoryUrls}

NoData ==
  [null |-> TRUE, repository |-> FALSE, hasUrl |-> FALSE, url |-> <<>>]

\* repoUrl.replace(from, to): the first occurrence only
RECURSIVE ReplaceFirst(_, _, _)
ReplaceFirst(str, from, to) ==
  IF str = <<>> THEN <<>>
  ELSE IF Head(str) = from THEN <<to>> \o Tail(str)
  ELSE <<Head(str)>> \o ReplaceFirst(Tail(str), from, to)

convertGitUrlToHttps(repoUrl) ==
  LET startsWithGitPlus == repoUrl # <<>> /\ Head(repoUrl) \in {"git+ssh://git@", "git+https://"}
      replaced == IF startsWithGitPlus
                  THEN ReplaceFirst(repoUrl, "git+ssh://git@", "https://")
                  ELSE repoUrl
  IN  IF replaced # <<>> /\ replaced[Len(replaced)] = ".git"
      THEN SubSeq(replaced, 1, Len(replaced) - 1)
      ELSE replaced

RegistryUrl(url) ==
  LET url_parts == Split(url, "/")
      repo == PartAt(url_parts, Len(url_parts) - 1)
  IN  <<"https:", "/", "/", "registry.npmjs.org", "/">> \o repo

ConsoleLine(stream, msg, arg) ==
  [stream |-> stream, msg |-> msg, arg |-> arg]

\* data?.repository?.url, truthy
HasRepositoryUrl(data) ==
  ~data.null /\ data.repository /\ data.hasUrl /\ data.url # <<>>

\* the console lines written once the registry fetch has settled
getNodeJsAPILink(fetch) ==
  IF fetch.state = "rejected"
  THEN Returned(<<ConsoleLine("error", "Error fetching data from npm API:", <<"error">>)>>)
  ELSE Returned(
         <<ConsoleLine("log", "Repository URL from npm Data:", <<"data">>),
           IF HasRepositoryUrl(fetch.data)
           THEN ConsoleLine("log", "Clean GitHub Repository URL:",
                            convertGitUrlToHttps(fetch.data.url))
           ELSE ConsoleLine("error",
                  "No GitHub repository link found or data is incomplete.", <<>>)>>)

NodeJsInit ==
  /\ \E url \in PackageUrls :
       utCall = [fn |-> "getNodeJsAPILink", url |-> url,
                 fetch |-> [state |-> "none", url |-> <<>>, data |-> NoData]]
  /\ utRet = Pending

\* fetchJsonFromApi(registry_url) is issued and awaited
NodeJsFetch ==
  /\ utCall.fn = "getNodeJsAPILink"
  /\ utCall.fetch.state = "none"
  /\ utCall' = [utCall EXCEPT !.fetch.state = "pending",
                              !.fetch.url = RegistryUrl(utCall.url)]
  /\ UNCHANGED utRet
  /\ UNCHANGED bfVars
  /\ UNCHANGED rmVars
  /\ UNCHANGED evVars
  /\ UNCHANGED mnVars

RegistryResolve(data) ==
  /\ utCall.fn = "getNodeJsAPILink"
  /\ utCall.fetch.state = "pending"
  /\ utCall' = [utCall EXCEPT !.fetch.state = "resolved", !.fetch.data = data]
  /\ UNCHANGED utRet
  /\ UNCHANGED bfVars
  /\ UNCHANGED rmVars
  /\ UNCHANGED evVars
  /\ UNCHANGED mnVars

RegistryReject ==
  /\ utCall.fn = "getNodeJsAPILink"
  /\ utCall.fetch.state = "pending"
  /\ utCall' = [utCall EXCEPT !.fetch.state = "rejected"]
  /\ UNCHANGED utRet
  /\ UNCHANGED bfVars
  /\ UNCHANGED rmVars
  /\ UNCHANGED evVars
  /\ UNCHANGED mnVars

NodeJsReturn ==
  /\ utCall.fn = "getNodeJsAPILink"
  /\ utCall.fetch.state \in {"resolved", "rejected"}
  /\ utRet = Pending
  /\ utRet' = getNodeJsAPILink(utCall.fetch)
  /\ UNCHANGED utCall
  /\ UNCHANGED bfVars
  /\ UNCHANGED rmVars
  /\ UNCHANGED evVars
  /\ UNCHANGED mnVars

NodeJsNext ==
  \/ NodeJsFetch
  \/ \E data \in NpmData : RegistryResolve(data)
  \/ RegistryReject
  \/ NodeJsReturn

\* ------------------------------------------------------------------ main
MnIdle ==
  /\ mnPc = "idle"
  /\ mnFile = [given |-> FALSE, exists |-> FALSE, content |-> <<>>]
  /\ mnUrls = <<>>
  /\ mnI = 0
  /\ mnLog = <<>>
  /\ mnHeap = <<>>
  /\ mnRecords = <<>>
  /\ mnOutput = <<>>
  /\ mnExit = -1

Whitespace ==
  {" "}

\* url.trim()
RECURSIVE TrimLeft(_)
TrimLeft(line) ==
  IF line # <<>> /\ Head(line) \in Whitespace THEN TrimLeft(Tail(line)) ELSE line

RECURSIVE TrimRight(_)
TrimRight(line) ==
  IF line # <<>> /\ line[Len(line)] \in Whitespace
  THEN TrimRight(SubSeq(line, 1, Len(line) - 1))
  ELSE line

Trim(line) ==
  TrimRight(TrimLeft(line))

\* urls.map(url => url.trim()).filter(url => url !== '')
TrimAndFilter(urls) ==
  SelectSeq([k \in 1..Len(urls) |-> Trim(urls[k])], LAMBDA url : url # <<>>)

processUrls(exists, content) ==
  LET parsed == parse_urls(exists, content)
  IN  IF parsed.exit # -1 THEN parsed
      ELSE IF Len(parsed.value) = 0 THEN Exited(1, TRUE)
      ELSE ReturnedAfterRead(TrimAndFilter(parsed.value))

UrlFileAtoms ==
  FileAtoms \cup Whitespace

UrlFileContents ==
  UNION {[1..n -> UrlFileAtoms] : n \in 0..MaxMainFileAtoms}

ProcessUrlsInit ==
  /\ \E exists \in BOOLEAN : \E content \in UrlFileContents :
       utCall = [fn |-> "processUrls", exists |-> exists,
                 content |-> IF exists THEN content ELSE <<>>]
  /\ utRet = Pending

CallProcessUrls ==
  /\ utCall.fn = "processUrls"
  /\ ~utRet.returned
  /\ utRet.exit = -1
  /\ utRet' = processUrls(utCall.exists, utCall.content)
  /\ UNCHANGED utCall
  /\ UNCHANGED bfVars
  /\ UNCHANGED rmVars
  /\ UNCHANGED evVars
  /\ UNCHANGED mnVars

\* one module-level object is handed out by every call
initJSONCall_Shared(heap) ==
  IF heap = <<>> THEN [heap |-> <<initJSON>>, ref |-> 1]
  ELSE [heap |-> [heap EXCEPT ![1] = initJSON], ref |-> 1]

\* a call of initJSON: the object literal allocates a new object
initJSONCall(heap) ==
  [heap |-> Append(heap, initJSON), ref |-> Len(heap) + 1]

\* a call of createRepoJson: repo_JSON.URL = url on the object initJSON returned
createRepoJsonCall(heap, url) ==
  LET made == initJSONCall(heap)
  IN  [heap |-> [made.heap EXCEPT ![made.ref].URL = url], ref |-> made.ref]

\* what the HEAD request of test_url can come to
HeadOutcomes ==
  {[state |-> "resolved", status |-> 200], [state |-> "resolved", status |-> 404],
   [state |-> "rejected", status |-> 0]}

validateUrl(fetch) ==
  LET exists == test_url(fetch)
  IN  IF exists.rejected THEN FALSE
      ELSE IF ~exists.value THEN FALSE ELSE TRUE

MainInit ==
  /\ mnPc = "start"
  /\ \E given \in BOOLEAN : \E exists \in BOOLEAN : \E content \in UrlFileContents :
       mnFile = [given |-> given,
                 exists |-> given /\ exists,
                 content |-> IF given /\ exists THEN content ELSE <<>>]
  /\ mnUrls = <<>>
  /\ mnI = 0
  /\ mnLog = <<>>
  /\ mnHeap = <<>>
  /\ mnRecords = <<>>
  /\ mnOutput = <<>>
  /\ mnExit = -1

\* main up to the loop: the argument check and processUrls
MainProcessUrls ==
  /\ mnPc = "start"
  /\ IF ~mnFile.given
     THEN mnPc' = "exited" /\ mnExit' = 1 /\ UNCHANGED mnUrls
     ELSE LET urls == processUrls(mnFile.exists, mnFile.content)
          IN  IF urls.exit # -1
              THEN mnPc' = "exited" /\ mnExit' = urls.exit /\ UNCHANGED mnUrls
              ELSE mnPc' = "loop" /\ mnUrls' = urls.value /\ UNCHANGED mnExit
  /\ UNCHANGED <<mnFile, mnI, mnLog, mnHeap, mnRecords, mnOutput>>
  /\ UNCHANGED bfVars
  /\ UNCHANGED rmVars
  /\ UNCHANGED evVars
  /\ UNCHANGED utVars

\* the loop takes the next URL and awaits validateUrl(url)
MainValidate ==
  /\ mnPc = "loop"
  /\ mnI < Len(mnUrls)
  /\ mnPc' = "validating"
  /\ UNCHANGED <<mnFile, mnUrls, mnI, mnLog, mnHeap, mnRecords, mnOutput, mnExit>>
  /\ UNCHANGED bfVars
  /\ UNCHANGED rmVars
  /\ UNCHANGED evVars
  /\ UNCHANGED utVars

\* the record is created whatever validateUrl returned, and the loop goes on
MainValidated_NoExit(fetch) ==
  /\ mnPc = "validating"
  /\ LET url == mnUrls[mnI + 1]
         isValid == validateUrl(fetch)
     IN  /\ mnLog' = Append(mnLog, [url |-> url, isValid |-> isValid])
         /\ LET made == createRepoJsonCall(mnHeap, url)
            IN  /\ mnHeap' = made.heap
                /\ mnRecords' = Append(mnRecords, made.ref)
                /\ mnI' = mnI + 1
                /\ mnPc' = "loop"
                /\ UNCHANGED mnExit
  /\ UNCHANGED <<mnFile, mnUrls, mnOutput>>
  /\ UNCHANGED bfVars
  /\ UNCHANGED rmVars
  /\ UNCHANGED evVars
  /\ UNCHANGED utVars

\* validateUrl has returned: exit(1) for an invalid URL, otherwise the
\* record is created and the iteration ends
MainValidated(fetch) ==
  /\ mnPc = "validating"
  /\ LET url == mnUrls[mnI + 1]
         isValid == validateUrl(fetch)
     IN  /\ mnLog' = Append(mnLog, [url |-> url, isValid |-> isValid])
         /\ IF ~isValid
            THEN /\ mnPc' = "exited"
                 /\ mnExit' = 1
                 /\ UNCHANGED <<mnHeap, mnRecords, mnI>>
            ELSE LET made == createRepoJsonCall(mnHeap, url)
                 IN  /\ mnHeap' = made.heap
                     /\ mnRecords' = Append(mnRecords, made.ref)
                     /\ mnI' = mnI + 1
                     /\ mnPc' = "loop"
                     /\ UNCHANGED mnExit
  /\ UNCHANGED <<mnFile, mnUrls, mnOutput>>
  /\ UNCHANGED bfVars
  /\ UNCHANGED rmVars
  /\ UNCHANGED evVars
  /\ UNCHANGED utVars

\* the loop is over and main returns
MainReturn ==
  /\ mnPc = "loop"
  /\ mnI = Len(mnUrls)
  /\ mnPc' = "done"
  /\ UNCHANGED <<mnFile, mnUrls, mnI, mnLog, mnHeap, mnRecords, mnOutput, mnExit>>
  /\ UNCHANGED bfVars
  /\ UNCHANGED rmVars
  /\ UNCHANGED evVars
  /\ UNCHANGED utVars

MainNext ==
  \/ MainProcessUrls
  \/ MainValidate
  \/ \E fetch \in HeadOutcomes : MainValidated(fetch)
  \/ MainReturn

\* -------------------------------------------------------- specifications
BFNext ==
  \/ CallGetBusFactor
  \/ Recall

InitBusFactor ==
  BFInit /\ RMIdle /\ EvIdle /\ UtIdle /\ MnIdle

SpecBusFactor ==
  InitBusFactor /\ [][BFNext]_vars

RMNext ==
  \/ RMCall
  \/ \E f \in Fetches : FetchResolve(f)
  \/ \E f \in Fetches : FetchReject(f)
  \/ RMResume
  \/ RMThrow
  \/ Tick

InitRM ==
  BFIdle /\ RMInit /\ EvIdle /\ UtIdle /\ MnIdle

SpecRM ==
  InitRM /\ [][RMNext]_vars

InitEval ==
  BFIdle /\ RMIdle /\ EvInit /\ UtIdle /\ MnIdle

SpecEval ==
  InitEval /\ [][EvNext]_vars

InitIsolation ==
  BFIdle /\ RMIdle /\ IsolationInit /\ UtIdle /\ MnIdle

SpecIsolation ==
  InitIsolation /\ [][EvNext]_vars

InitLink ==
  BFIdle /\ RMIdle /\ EvIdle /\ LinkInit /\ MnIdle

SpecLink ==
  InitLink /\ [][CallGetGitHubAPILink]_vars

InitCounts ==
  BFIdle /\ RMIdle /\ EvIdle /\ CountsInit /\ MnIdle

SpecCounts ==
  InitCounts /\ [][CallGetContributionCounts]_vars

InitUrlType ==
  BFIdle /\ RMIdle /\ EvIdle /\ UrlTypeInit /\ MnIdle

SpecUrlType ==
  InitUrlType /\ [][CallUrlType]_vars

InitParseUrls ==
  BFIdle /\ RMIdle /\ EvIdle /\ ParseUrlsInit /\ MnIdle

SpecParseUrls ==
  InitParseUrls /\ [][CallParseUrls]_vars

InitTimestamp ==
  BFIdle /\ RMIdle /\ EvIdle /\ TimestampInit /\ MnIdle

SpecTimestamp ==
  InitTimestamp /\ [][CallGetTimestamp]_vars

InitTestUrl ==
  BFIdle /\ RMIdle /\ EvIdle /\ TestUrlInit /\ MnIdle

SpecTestUrl ==
  InitTestUrl /\ [][TestUrlNext]_vars

InitNodeJs ==
  BFIdle /\ RMIdle /\ EvIdle /\ NodeJsInit /\ MnIdle

SpecNodeJs ==
  InitNodeJs /\ [][NodeJsNext]_vars

InitProcessUrls ==
  BFIdle /\ RMIdle /\ EvIdle /\ ProcessUrlsInit /\ MnIdle

SpecProcessUrls ==
  InitProcessUrls /\ [][CallProcessUrls]_vars

InitMain ==
  BFIdle /\ RMIdle /\ EvIdle /\ UtIdle /\ MainInit

SpecMain ==
  InitMain /\ [][MainNext]_vars

\* main runs on whenever it can
SpecMainFair ==
  InitMain /\ [][MainNext]_vars /\ WF_vars(MainNext)

\* --------------------------------------------------- Bus Factor: claims
WellFormed(data) ==
  \A j \in 1..Len(data) : data[j].t = "number"

InUnitInterval(x) ==
  x.t = "number" /\ 0 <= x.n /\ x.n <= x.d

\* C1: for every well-formed contributor list (any length including 0, any
\* non-negative counts) the value returned by getBusFactor lies in [0, 1].
C1_OutputInUnitInterval ==
  (bfPc = "done" /\ WellFormed(bfData)) => InUnitInterval(bfOut)

\* C2: getBusFactor is invariant to input order: a call on a permutation of
\* the list of the previous call returns the previous call's value.
C2_OrderInvariant ==
  (bfPc = "done" /\ WellFormed(bfData) /\ bfPrev # NoValue) => bfOut = bfPrev

AllZero(data) ==
  \A j \in 1..Len(data) : data[j] = Num(0)

\* C3: getBusFactor returns 0.0 for the empty list and for every list whose
\* contribution counts are all zero.
C3_DegenerateIsZero ==
  (bfPc = "done" /\ AllZero(bfData)) => (bfOut.t = "number" /\ bfOut.n = 0)

\* C4: elements with a missing or non-numeric `contributions` are skipped:
\* the result equals the result on the list with those elements removed.
C4_MalformedSkipped ==
  bfPc = "done" => bfOut = getBusFactor(getContributionCounts(bfData))

\* ---------------------------------------- Responsive Maintainer: claims
closedCount ==
  Cardinality({k \in 1..Len(rmIssuesData) : rmIssuesData[k] = Str})

localOpenCount ==
  Len(rmIssuesData) - closedCount

\* C5: for every issue list and every metadata object with a non-negative
\* open_issues_count, the returned score satisfies 0 <= score <= 1.
C5_ScoreInUnitInterval ==
  rmPc = "done" => InUnitInterval(rmResult.score)

C5_Witness ==
  /\ rmPc = "done"
  /\ closedCount > 0
  /\ rmRepoData.t = "number" /\ rmRepoData.n > closedCount
  /\ rmResult.score.n > 0 /\ rmResult.score.n < rmResult.score.d

\* C6: whenever no fetched issue has a closed_at value, the returned score is
\* exactly 1.0, whatever the open issues and the metadata open_issues_count.
C6_NoClosedGivesOne ==
  (rmPc = "done" /\ closedCount = 0) =>
    (rmResult.score.t = "number" /\ rmResult.score.n = rmResult.score.d)

C6_Witness ==
  /\ rmPc = "done"
  /\ closedCount = 0
  /\ localOpenCount = 2
  /\ rmRepoData = Num(7)
  /\ rmResult.score = Rat(100, 100)

C8_FetchFailureRecovered ==
  (rmPc \in {"done", "rejected"} /\ \E f \in Fetches : rmFetch[f] = "failed") =>
    /\ rmPc = "done"
    /\ rmResult.score \in {NoValue, Null}
    /\ rmResult.latency.t = "number"

\* ------------------------------------------------------ evaluation: claims
Finished(r) ==
  evState[r] \in {"PartiallyComplete", "Aggregated"}

\* C9: failure isolation: the score and latency outcome of every calculator
\* other than the victim is the same in the evaluation where the victim's
\* fetch fails as in the one where it succeeds, whatever the interleavings.
C9_FailureIsolation ==
  (Finished(1) /\ Finished(2)) =>
    \A m \in Metrics \ {evVictim} :
      /\ evCalc[1][m] = evCalc[2][m]
      /\ evRecord[1][m] = evRecord[2][m]
      /\ evRecord[1][LatencyField(m)] = evRecord[2][LatencyField(m)]

C9_Witness ==
  /\ Finished(1) /\ Finished(2)
  /\ evVictim = "ResponsiveMaintainer"
  /\ evCalc[1]["ResponsiveMaintainer"] = "filled"
  /\ evCalc[2]["ResponsiveMaintainer"] = "failed"
  /\ evCalc[2]["BusFactor"] = "filled"
  /\ evCalc[2]["License"] = "failed"

RatEq(a, b) ==
  a.t = "number" /\ b.t = "number" /\ a.n * b.d = b.n * a.d

\* C10: NetScore is the equal-weight mean of exactly the present scores:
\* NetScore times the number of present metrics equals their sum, so two
\* present metrics 0.8 and 0.4 with three absent give 0.6.
C10_MeanOfPresent ==
  (evState[1] = "Aggregated" /\ Present(evRecord[1]) # {}) =>
    LET rec == evRecord[1]
        P == {m \in Metrics : rec[m] # Null}
    IN  /\ rec.NetScore.t = "number"
        /\ RatEq(JsDiv(SumOf(rec, P), Num(1)),
                 Rat(rec.NetScore.n * Cardinality(P), rec.NetScore.d))
        /\ (Cardinality(P) = 2 /\ {rec[m] : m \in P} = {Rat(80, 100), Rat(40, 100)})
             => RatEq(rec.NetScore, Rat(60, 100))

C10_Witness ==
  /\ evState[1] = "Aggregated"
  /\ Present(evRecord[1]) = {"RampUp", "BusFactor"}
  /\ evRecord[1].RampUp = Rat(80, 100)
  /\ evRecord[1].BusFactor = Rat(40, 100)
  /\ RatEq(evRecord[1].NetScore, Rat(60, 100))

\* C11: for every combination of present and absent scores, every one of
\* the five sub-metrics has a recorded latency (failed ones included) and
\* the NetScore latency equals the sum of the five.
C11_LatencyIsSumOfFive ==
  evState[1] = "Aggregated" =>
    LET rec == evRecord[1]
    IN  /\ \A m \in Metrics : rec[LatencyField(m)].t = "number"
        /\ RatEq(rec.NetScore_Latency,
                 SumOf([m \in Metrics |-> evPlan[1][m].latency], Metrics))

\* C12: after aggregation NetScore is absent if and only if none of the
\* five scores is present; a single missing sub-metric never makes it absent.
C12_AbsentIffNonePresent ==
  evState[1] = "Aggregated" =>
    LET rec == evRecord[1]
    IN  /\ (rec.NetScore = Null) <=> (\A m \in Metrics : rec[m] = Null)
        /\ (\E m \in Metrics : rec[m] # Null) => rec.NetScore.t = "number"

C12_Witness ==
  /\ evState[1] = "Aggregated"
  /\ Cardinality(Present(evRecord[1])) = 4
  /\ evRecord[1].BusFactor = Null
  /\ evRecord[1].NetScore.t = "number"

\* C13: the record is append-only within one evaluation: a slot (score and
\* latency) that has been written is never changed again, and the URL never
\* changes once it is set.
C13_AppendOnly ==
  [][\A r \in Runs :
       /\ evRecord[r].URL # "" => evRecord'[r].URL = evRecord[r].URL
       /\ \A m \in Metrics :
            evCalc[r][m] \in {"filled", "failed"} =>
              /\ evRecord'[r][m] = evRecord[r][m]
              /\ evRecord'[r][LatencyField(m)] = evRecord[r][LatencyField(m)]
       /\ evState[r] = "Aggregated" =>
            /\ evRecord'[r].NetScore = evRecord[r].NetScore
            /\ evRecord'[r].NetScore_Latency = evRecord[r].NetScore_Latency]_vars

C13_Witness ==
  /\ evState[1] = "Aggregated"
  /\ evRecord[1].URL = SampleUrl
  /\ evCalc[1]["License"] = "failed"
  /\ evRecord[1].License = Null
  /\ evRecord[1].License_Latency.t = "number"
  /\ evRecord[1].RampUp.t = "number"

RECURSIVE ValidUpTo(_, _)
ValidUpTo(data, j) ==
  IF j = 0 THEN 0
  ELSE ValidUpTo(data, j - 1) + (IF data[j].t = "number" THEN 1 ELSE 0)

\* C17: getContributionCounts returns, in input order, the `contributions`
\* of exactly the elements whose `contributions` is a number: the k-th value
\* returned is that of the k-th valid element, and the output length is the
\* number of valid elements.
C17_ValidCountsInOrder ==
  (utCall.fn = "getContributionCounts" /\ utRet.returned) =>
    LET data == utCall.data
        out == utRet.value
    IN  /\ Len(out) = ValidUpTo(data, Len(data))
        /\ \A j \in 1..Len(data) :
             data[j].t = "number" => out[ValidUpTo(data, j)] = data[j]

C17_Witness ==
  /\ utCall.fn = "getContributionCounts"
  /\ utRet.returned
  /\ utCall.data = <<Num(3), Str, Num(0), Undefined>>
  /\ utRet.value = <<Num(3), Num(0)>>

\* C18: for a URL https://github.com/<owner>/<repo>, getGitHubAPILink returns
\* https://api.github.com/repos/<owner>/<repo> when the endpoint is empty or
\* omitted, and that string followed by '/' and the endpoint otherwise.
C18_ApiLink ==
  (utCall.fn = "getGitHubAPILink" /\ utRet.returned) =>
    \A owner \in Names : \A repo \in Names :
      utCall.url = RepoUrl(owner, repo) =>
        LET base == <<"https:", "/", "/", "api.github.com", "/", "repos", "/">>
                      \o owner \o <<"/">> \o repo
        IN  IF utCall.endpoint.given /\ utCall.endpoint.s # <<>>
            THEN utRet.value = base \o <<"/">> \o utCall.endpoint.s
            ELSE utRet.value = base

C18_Witness ==
  /\ utCall.fn = "getGitHubAPILink"
  /\ utRet.returned
  /\ utCall.url = <<"https:", "/", "/", "github.com", "/", "lodash", "/", "lodash", "js">>
  /\ ~utCall.endpoint.given
  /\ utRet.value = <<"https:", "/", "/", "api.github.com", "/", "repos", "/",
                     "lodash", "/", "lodash", "js">>

\* C19: url_type returns exactly one of "github", "npmjs" and "other":
\* "github" when the URL contains github.com, "npmjs" when it contains
\* npmjs.com, "other" when it contains neither.
C19_OneOfThree ==
  (utCall.fn = "url_type" /\ utRet.returned) =>
    LET url == utCall.url
        has(name) == \E i \in 1..(Len(url) - 1) :
                       Lower(url[i]) = name /\ url[i + 1] = ".com"
    IN  /\ utRet.value \in {"github", "npmjs", "other"}
        /\ (~has("github") /\ ~has("npmjs")) => utRet.value = "other"
        /\ (has("github") /\ ~has("npmjs")) => utRet.value = "github"
        /\ (has("npmjs") /\ ~has("github")) => utRet.value = "npmjs"

\* the lines joined by "\n"
RECURSIVE Join(_)
Join(lines) ==
  IF Len(lines) = 0 THEN <<>>
  ELSE IF Len(lines) = 1 THEN lines[1]
  ELSE lines[1] \o <<"\n">> \o Join(Tail(lines))

IsLeap(y) ==
  y % 4 = 0 /\ (y % 100 # 0 \/ y % 400 = 0)

MonthLen(y, m) ==
  IF m = 2 THEN (IF IsLeap(y) THEN 29 ELSE 28)
  ELSE IF m \in {4, 6, 9, 11} THEN 30 ELSE 31

RECURSIVE DaysBeforeYear(_)
DaysBeforeYear(y) ==
  IF y <= 1970 THEN 0
  ELSE DaysBeforeYear(y - 1) + (IF IsLeap(y - 1) THEN 366 ELSE 365)

RECURSIVE DaysBeforeMonth(_, _)
DaysBeforeMonth(y, m) ==
  IF m <= 1 THEN 0 ELSE DaysBeforeMonth(y, m - 1) + MonthLen(y, m - 1)

\* whole seconds from 1970-01-01T00:00:00Z to the instant, by counting days
WholeSeconds(now) ==
  (DaysBeforeYear(now.date.y) + DaysBeforeMonth(now.date.y, now.date.m)
     + now.date.d - 1) * 86400
  + now.h * 3600 + now.mi * 60 + now.s

TimestampIsSecondsPlusMillis ==
  (utCall.fn = "getTimestampWithThreeDecimalPlaces" /\ utRet.returned) =>
    /\ utRet.value.seconds = WholeSeconds(utCall.now)
    /\ utRet.value.milliseconds = utCall.now.ms

ExampleInstant ==
  [date |-> [y |-> 2024, m |-> 9, d |-> 21], h |-> 10, mi |-> 20, s |-> 30, ms |-> 456]

C21_TestUrlBoolean ==
  utCall.fn = "test_url" =>
    /\ ~utRet.rejected
    /\ utRet.returned =>
         /\ utRet.value \in BOOLEAN
         /\ utRet.value <=> (/\ utCall.fetch.state = "resolved"
                             /\ utCall.fetch.status \in 200..299)

C21_Witness ==
  /\ utCall.fn = "test_url"
  /\ utCall.fetch.state = "rejected"
  /\ utRet.returned
  /\ utRet.value = FALSE

LastLine ==
  utRet.value[Len(utRet.value)]

\* C22: getNodeJsAPILink always resolves; it fetches
\* https://registry.npmjs.org/<last path segment>; a failed fetch is reported
\* as 'Error fetching data from npm API:' with the error, data without
\* repository.url as 'No GitHub repository link found or data is
\* incomplete.', and otherwise the repository URL is reported in https form
\* with the trailing .git removed.
C22_NodeJsReport ==
  utCall.fn = "getNodeJsAPILink" =>
    /\ ~utRet.rejected
    /\ utCall.fetch.state # "none" =>
         \E name \in Names :
           /\ utCall.url = <<"https:", "/", "/", "www.npmjs.com", "/", "package", "/">> \o name
           /\ utCall.fetch.url = <<"https:", "/", "/", "registry.npmjs.org", "/">> \o name
    /\ utRet.returned =>
         IF utCall.fetch.state = "rejected"
         THEN LastLine = [stream |-> "error", msg |-> "Error fetching data from npm API:",
                          arg |-> <<"error">>]
         ELSE IF ~(~utCall.fetch.data.null /\ utCall.fetch.data.repository
                    /\ utCall.fetch.data.hasUrl /\ utCall.fetch.data.url # <<>>)
         THEN LastLine = [stream |-> "error",
                          msg |-> "No GitHub repository link found or data is incomplete.",
                          arg |-> <<>>]
         ELSE /\ LastLine.stream = "log"
              /\ LastLine.msg = "Clean GitHub Repository URL:"
              /\ LastLine.arg = <<"https://", "github.com/user/repo">>

RECURSIVE SumOver(_, _)
SumOver(data, S) ==
  IF S = {} THEN 0
  ELSE LET j == CHOOSE j \in S : TRUE
       IN  data[j].n + SumOver(data, S \ {j})

\* the cumulative contributions of the k contributors with the largest counts
LargestSum(data, k) ==
  LET sums == {SumOver(data, S) : S \in {T \in SUBSET (1..Len(data)) : Cardinality(T) = k}}
  IN  CHOOSE x \in sums : \A y \in sums : y <= x

\* the smallest k whose k largest counts reach 95% of the total
CoverCount(data) ==
  LET total == SumOver(data, 1..Len(data))
      enough == {k \in 1..Len(data) : 100 * LargestSum(data, k) >= 95 * total}
  IN  CHOOSE k \in enough : \A l \in enough : k <= l

\* x is a multiple of 0.1 within 0.05 of p / q
IsRoundedToTenth(x, p, q) ==
  /\ x.t = "number"
  /\ (10 * x.n) % x.d = 0
  /\ 20 * (x.n * q - p * x.d) <= x.d * q
  /\ 20 * (p * x.d - x.n * q) <= x.d * q

\* C23: for a list of n >= 1 contributors with a positive total, getBusFactor
\* returns 1 - k/n rounded to one decimal place, k being the smallest number
\* of contributors, taken from the largest count downward, whose cumulative
\* contributions reach at least 95% of the total.
C23_BusFactorFormula ==
  (/\ bfPc = "done"
   /\ Len(bfData) >= 1
   /\ WellFormed(bfData)
   /\ SumOver(bfData, 1..Len(bfData)) > 0) =>
    IsRoundedToTenth(bfOut, Len(bfData) - CoverCount(bfData), Len(bfData))

\* ------------------------------------------------------ ordering: claims
\* C24: in calculateResponsiveMaintainer both fetches are issued before
\* either result is awaited, and the score is computed only after both have
\* completed successfully, never from one result alone.
C24_BothFetchesBeforeScore ==
  /\ (\E f \in Fetches : rmFetch[f] # "idle") => (\A f \in Fetches : rmFetch[f] # "idle")
  /\ rmPc = "awaiting" => (\A f \in Fetches : rmFetch[f] # "idle")
  /\ (rmPc = "done" \/ rmResult # NoResult) => (\A f \in Fetches : rmFetch[f] = "ok")

C24_Witness ==
  /\ rmPc = "done"
  /\ \A f \in Fetches : rmFetch[f] = "ok"
  /\ rmResult.score.t = "number"
  /\ rmIssuesData = <<Str, Null>>

\* C25: in every interleaving of the five calculators the ScoreAggregator
\* runs and NetScore is written only after all five calculators have
\* settled; no NetScore exists while a metric slot is unpopulated.
C25_BarrierBeforeAggregation ==
  \A r \in Runs :
    (\/ evState[r] \in {"PartiallyComplete", "Aggregated"}
     \/ evRecord[r].NetScore # Null
     \/ evRecord[r].NetScore_Latency # Null) =>
      \A m \in Metrics : evCalc[r][m] \in {"filled", "failed"}

C25_Witness ==
  /\ evState[1] = "Aggregated"
  /\ evCalc[1]["RampUp"] = "failed"
  /\ evCalc[1]["Correctness"] = "failed"
  /\ \A m \in Metrics \ {"RampUp", "Correctness"} : evCalc[1][m] = "filled"
  /\ evRecord[1].NetScore.t = "number"

StateOrder ==
  {<<"Created", "Fetching">>, <<"Fetching", "PartiallyComplete">>,
   <<"PartiallyComplete", "Aggregated">>}

\* C26: an evaluation's state advances only in the order Created, Fetching,
\* PartiallyComplete, Aggregated, with no state skipped or revisited and no
\* transition out of Aggregated; a metric slot that reached Failed is never
\* attempted again.
C26_StateOrder ==
  [][\A r \in Runs :
       /\ evState'[r] # evState[r] => <<evState[r], evState'[r]>> \in StateOrder
       /\ \A m \in Metrics : evCalc[r][m] = "failed" => evCalc'[r][m] = "failed"]_vars

C26_Witness ==
  /\ evState[1] = "Aggregated"
  /\ evCalc[1]["BusFactor"] = "failed"
  /\ \A m \in Metrics \ {"BusFactor"} : evCalc[1][m] = "filled"

\* ----------------------------------------------------------- main: claims
ScoreFields ==
  {"NetScore", "NetScore_Latency", "RampUp", "RampUp_Latency",
   "Correctness", "Correctness_Latency", "BusFactor", "BusFactor_Latency",
   "ResponsiveMaintainer", "ResponsiveMaintainer_Latency",
   "License", "License_Latency"}

\* C27: for every URL that passed validation the evaluation eventually
\* reaches Aggregated, with all five metric slots populated and NetScore
\* set, and the completed record is handed to the output.
C27_ValidatedUrlIsEvaluated ==
  \A k \in 1..(MaxMainFileAtoms + 1) :
    (Len(mnRecords) >= k) ~>
      (/\ Len(mnRecords) >= k
       /\ \A m \in Metrics : mnHeap[mnRecords[k]][LatencyField(m)] # Null
       /\ mnHeap[mnRecords[k]].NetScore_Latency # Null
       /\ \E j \in 1..Len(mnOutput) : mnOutput[j] = mnRecords[k])

\* C28: a record newly created by createRepoJson has the given URL and null
\* in each of the twelve score and latency fields, and is an object of its
\* own: no two records created are the same object, so every record keeps
\* the URL it was created with.
C28_FreshEmptyRecord ==
  /\ \A k \in 1..Len(mnRecords) :
       /\ mnRecords[k] \in 1..Len(mnHeap)
       /\ mnHeap[mnRecords[k]].URL = mnUrls[k]
       /\ \A f \in ScoreFields : mnHeap[mnRecords[k]][f] = Null
  /\ \A k, l \in 1..Len(mnRecords) : k # l => mnRecords[k] # mnRecords[l]

C28_Witness ==
  /\ Len(mnRecords) = 2
  /\ mnHeap[mnRecords[1]].URL = <<"https://github.com/a/b">>
  /\ mnHeap[mnRecords[2]].URL = <<"https://www.npmjs.com/package/c">>
  /\ mnHeap[mnRecords[2]].License_Latency = Null

\* C29: main validates the URLs one at a time in file order and creates the
\* record of a URL only after that URL has passed validation; at the first
\* URL whose validation fails the process exits with code 1 and no record
\* exists for that URL or any later one.
C29_ValidateThenCreate ==
  /\ Len(mnLog) <= Len(mnUrls)
  /\ \A k \in 1..Len(mnLog) : mnLog[k].url = mnUrls[k]
  /\ Len(mnRecords) <= Len(mnLog)
  /\ \A k \in 1..Len(mnRecords) :
       mnLog[k].isValid /\ mnHeap[mnRecords[k]].URL = mnLog[k].url
  /\ \A k \in 1..Len(mnLog) :
       ~mnLog[k].isValid =>
         /\ k = Len(mnLog)
         /\ mnPc = "exited"
         /\ mnExit = 1
         /\ Len(mnRecords) = k - 1
  /\ (mnPc \in {"loop", "done"}) => Len(mnRecords) = Len(mnLog)

C29_Witness ==
  /\ mnPc = "exited"
  /\ mnExit = 1
  /\ Len(mnUrls) = 2
  /\ Len(mnLog) = 2
  /\ mnLog[1].isValid
  /\ ~mnLog[2].isValid
  /\ Len(mnRecords) = 1

\* a line with nothing but whitespace
Blank(line) ==
  \A j \in 1..Len(line) : line[j] = " "

\* the non-blank lines of the file without their surrounding whitespace
RECURSIVE CleanLines(_)
CleanLines(lines) ==
  IF lines = <<>> THEN <<>>
  ELSE LET line == Head(lines)
           first == CHOOSE j \in 1..Len(line) :
                      line[j] # " " /\ \A i \in 1..(j - 1) : line[i] = " "
           last == CHOOSE j \in 1..Len(line) :
                     line[j] # " " /\ \A i \in (j + 1)..Len(line) : line[i] = " "
       IN  IF Blank(line) THEN CleanLines(Tail(lines))
           ELSE <<SubSeq(line, first, last)>> \o CleanLines(Tail(lines))

\* C30: processUrls returns the file's lines trimmed of surrounding
\* whitespace with empty lines removed, in file order; it exits with status
\* 1 whenever the file is empty or holds no non-blank entry, and never
\* returns an empty array.
C30_ProcessUrls ==
  (utCall.fn = "processUrls" /\ utCall.exists /\ (utRet.returned \/ utRet.exit # -1)) =>
    LET lines == Split(utCall.content, "\n")
    IN  IF \A k \in 1..Len(lines) : Blank(lines[k])
        THEN utRet.exit = 1 /\ ~utRet.returned
        ELSE /\ utRet.returned
             /\ utRet.value = CleanLines(lines)
             /\ utRet.value # <<>>

====
